---- MODULE Spec2Model ----
(***************************************************************************)
(* Model of the gemini client library (src/gemini.go): the GeminiAPI       *)
(* dispatcher with its nonce counter, the signed request path AuthAPIReq,  *)
(* the unauthenticated GetTicker and the typed wrappers GetFunds,          *)
(* GetOrderStatus, CancelAll and PlaceLimitOrder.                          *)
(*                                                                         *)
(* Callers are goroutines sharing one *GeminiAPI.  AuthAPIReq takes no     *)
(* lock, so its accesses to ga.Nonce (the read in SetNonce(ga.Nonce), the  *)
(* read and the write of ga.Nonce++) are separate steps that interleave    *)
(* with the steps of the other callers.                                    *)
(*                                                                         *)
(* A second instance, gb, stands for the dispatcher of another account;    *)
(* the goroutine that uses it runs the same code with gb as the receiver.  *)
(*                                                                         *)
(* Strings are sequences of elements.  An element is one byte that the     *)
(* encoders treat specially (Quote, Backslash, the control byte DEL, the   *)
(* bytes 0xFF and 0xFE that are not valid UTF-8) or a run of ordinary      *)
(* ASCII bytes that every encoder copies unchanged.                        *)
(***************************************************************************)
EXTENDS Integers, Sequences, FiniteSets, TLC

\* ------------------------------------------------------------------ bounds
NumProcs == 2        \* goroutines sharing the dispatcher
MaxCalls == 3        \* calls of AuthAPIReq in one behaviour
MaxStrLen == 1       \* length of the caller strings drawn for the signature check
MaxChanges == 1      \* fields changed between the two signed runs

Procs == 1..NumProcs

\* ----------------------------------------------------------------- strings
Quote == "\""
Backslash == "\\"
DEL == "x7F"
InvalidBytes == {"xFF", "xFE"}

RECURSIVE Flatten(_)
Flatten(ss) == IF ss = <<>> THEN <<>> ELSE Head(ss) \o Flatten(Tail(ss))

\* encoding/json, encodeState.string: a quote or a backslash is escaped with
\* a backslash, a byte that is not valid UTF-8 is written as the six bytes of the
\* escape of U+FFFD, any other element here is copied.
JSONEscape(c) ==
    IF c = Quote THEN <<Backslash, Quote>>
    ELSE IF c = Backslash THEN <<Backslash, Backslash>>
    ELSE IF c \in InvalidBytes THEN <<Backslash, "u", "f", "f", "f", "d">>
    ELSE <<c>>

JSONString(s) == <<Quote>> \o Flatten([i \in 1..Len(s) |-> JSONEscape(s[i])]) \o <<Quote>>

\* net/url, parse: a URL holding an ASCII control byte is rejected.
UrlOK(s) == \A i \in 1..Len(s) : s[i] # DEL

\* the routes of the endpoints
RouteBalances == <<"/v1/balances">>
RouteOrders == <<"/v1/orders">>
RouteCancelSession == <<"/v1/order/cancel/session">>
RouteOrderNew == <<"/v1/order/new">>
TickerUrl(pair) == <<"/v1/pubticker/">> \o pair

\* ---------------------------------------------------------------- requests
BaseRequest(route, n) ==
    [type |-> "BaseRequest", Request |-> route, Nonce |-> n,
     Symbol |-> <<>>, Amount |-> <<>>, Price |-> <<>>, Side |-> <<>>,
     Type |-> <<>>, ClientId |-> <<>>]

NewBaseRequest(route) == BaseRequest(route, 0)

OrderPlaceReq(route, symbol, amount, price, side, type, clientId) ==
    [type |-> "OrderPlaceReq", Request |-> route, Nonce |-> 0,
     Symbol |-> symbol, Amount |-> amount, Price |-> price, Side |-> side,
     Type |-> type, ClientId |-> clientId]

NoRequest == NewBaseRequest(<<>>)

\* the nonce is set on a copy of the request and lost
SetNonceOnCopy(req, n) == req

SetNonce(req, n) == [req EXCEPT !.Nonce = n]

GetRoute(req) == req.Request

\* json.Marshal of a BaseRequest: the fields in declaration order.
BaseGetPayload(req) ==
    << <<"request", JSONString(req.Request)>>, <<"nonce", req.Nonce>> >>

\* OrderPlaceReq without a GetPayload of its own: the method promoted from
\* the embedded BaseRequest marshals the BaseRequest alone.
OrderGetPayloadPromoted(req) == BaseGetPayload(req)

\* json.Marshal of an OrderPlaceReq: the promoted fields of the embedded
\* BaseRequest first, then the order fields.
OrderGetPayload(req) ==
    BaseGetPayload(req) \o
    << <<"symbol", JSONString(req.Symbol)>>,
       <<"amount", JSONString(req.Amount)>>,
       <<"price", JSONString(req.Price)>>,
       <<"side", JSONString(req.Side)>>,
       <<"type", JSONString(req.Type)>>,
       <<"client_order_id", JSONString(req.ClientId)>> >>

GetPayload(req) ==
    IF req.type = "OrderPlaceReq" THEN OrderGetPayload(req) ELSE BaseGetPayload(req)

\* base64, HMAC-SHA384 and hex are one-to-one on their arguments.
Base64(bytes) == <<"base64", bytes>>
HMAC384(key, msg) == <<"hmac-sha384", key, msg>>
Hex(bytes) == <<"hex", bytes>>

\* the secret is sent in the place of the key
SignedHeadersSecretSent(key, secret, req) ==
    [apikey |-> secret,
     payload |-> Base64(GetPayload(req)),
     signature |-> Hex(HMAC384(secret, Base64(GetPayload(req))))]

\* AuthAPIReq, lines 112-118: the three headers of the signed request.
SignedHeaders(key, secret, req) ==
    [apikey |-> key,
     payload |-> Base64(GetPayload(req)),
     signature |-> Hex(HMAC384(secret, Base64(GetPayload(req))))]

\* -------------------------------------------------------------- formatting
\* A float64 argument is a number of millionths, or one of the values of the
\* type that are not numbers: NaN and the two infinities.
Finite(n) == [class |-> "finite", micros |-> n]
NaN == [class |-> "NaN", micros |-> 0]
PosInf == [class |-> "+Inf", micros |-> 0]
NegInf == [class |-> "-Inf", micros |-> 0]

RECURSIVE Pow10(_)
Pow10(k) == IF k = 0 THEN 1 ELSE 10 * Pow10(k - 1)

Digit(d) == <<"0", "1", "2", "3", "4", "5", "6", "7", "8", "9">>[d + 1]

RECURSIVE Digits(_)
Digits(n) == IF n < 10 THEN <<Digit(n)>> ELSE Digits(n \div 10) \o <<Digit(n % 10)>>

RECURSIVE FracDigits(_, _)
FracDigits(n, k) == IF k = 0 THEN <<>> ELSE FracDigits(n \div 10, k - 1) \o <<Digit(n % 10)>>

\* the magnitude n, in millionths, rounded to the nearest multiple of
\* 10^-prec (ties, exact only for binary fractions, go to the even digit)
RoundTo(n, prec) ==
    LET unit == Pow10(6 - prec)
        q == n \div unit
        rem == n % unit
    IN  IF 2 * rem > unit \/ (2 * rem = unit /\ q % 2 = 1) THEN q + 1 ELSE q

\* fmt.Sprintf("%0.<prec>f", x): the sign of a negative number, the rounded
\* magnitude with every one of its prec digits; a value that is not a number
\* is written by its name, whatever the precision.
FormatFixed(x, prec) ==
    IF x.class # "finite" THEN <<x.class>>
    ELSE LET n == IF x.micros < 0 THEN -x.micros ELSE x.micros
             q == RoundTo(n, prec)
             sign == IF x.micros < 0 THEN <<"-">> ELSE <<>>
         IN  sign \o Digits(q \div Pow10(prec)) \o <<".">> \o FracDigits(q % Pow10(prec), prec)

\* ---------------------------------------------------------------- decoding
\* Response bodies the exchange sends: bytes that are not JSON, a JSON array
\* of records, a JSON object.  EmptyBody is the []byte{} of a failed call.
EmptyBody == ""
Bodies == {"garbage", "[records]", "{record}"}

NilErr == [kind |-> "nil", url |-> <<>>]
UrlError(url) == [kind |-> "url.Error", url |-> url]
ReadError == [kind |-> "read", url |-> <<>>]
SyntaxError == [kind |-> "json.SyntaxError", url |-> <<>>]
UnmarshalTypeError == [kind |-> "json.UnmarshalTypeError", url |-> <<>>]

\* json.Unmarshal(body, &target): target is a slice ("array") or a struct
\* ("object").  The json errors carry neither the route nor the input.
Unmarshal(body, target) ==
    IF body \in {EmptyBody, "garbage"} THEN SyntaxError
    ELSE IF (body = "[records]") = (target = "array") THEN NilErr
    ELSE UnmarshalTypeError

\* a Go value: the zero value of its type, or one decoded from bytes
ZeroValue == [zero |-> TRUE, from |-> EmptyBody]
Decoded(body) == [zero |-> FALSE, from |-> body]
Bytes(body) == [zero |-> body = EmptyBody, from |-> body]

\* ------------------------------------------------------------------- state
VARIABLES
    ga,         \* the GeminiAPI instance: BaseURL, ApiKey, ApiSecret, Nonce
    Nonce0,     \* the value NewGeminiAPI gave ga.Nonce
    pc,         \* pc[t]: where goroutine t stands in its operation
    op,         \* op[t]: the operation t runs
    arg,        \* arg[t]: the ticker, pair or route argument of that operation
    r,          \* r[t]: the Request t passed to AuthAPIReq
    tmp,        \* tmp[t]: the value ga.Nonce++ read and has not yet written back
    reqs,       \* reqs[t]: calls of client.Do and http.Get by the running call
    done,       \* the call that returned in the last step, if one did
    sent,       \* the nonces of the signed requests that left
    auths,      \* calls of AuthAPIReq so far
    halted,     \* an unrecovered panic ended the process
    sigA, sigB, \* the two runs of the signature check: secret and request
    outA, outB, \* their signed headers
    changes,    \* fields of sigB changed away from sigA
    gb,         \* a second GeminiAPI instance, for another account
    pcB,        \* where the goroutine that uses gb stands in its call
    rB,         \* the Request it passed to gb.AuthAPIReq
    tmpB,       \* the value gb.Nonce++ read and has not yet written back
    authsB      \* calls of gb.AuthAPIReq so far

mainVars == <<ga, Nonce0, pc, op, arg, r, tmp, reqs, done, sent, auths, halted>>
sigVars == <<sigA, sigB, outA, outB, changes>>
otherVars == <<gb, pcB, rB, tmpB, authsB>>
vars == <<ga, Nonce0, pc, op, arg, r, tmp, reqs, done, sent, auths, halted,
          sigA, sigB, outA, outB, changes, gb, pcB, rB, tmpB, authsB>>

\* ----------------------------------------------------------- input domains
BaseURLs == {<<"https://api.gemini.com">>, <<"https://api.gemini.com", DEL>>}
ApiKeys == {<<"key">>}
ApiSecrets == {<<"secret1">>, <<"secret2">>}
InitNonces == {1000, 5000}      \* time.Now().UnixNano() at construction
DirectRoutes == {<<"/v1/mytrades">>}
Pairs == {<<"btcusd">>}
Tickers == {<<"btcusd">>, <<"ethbtc">>, <<"ltcusd">>}
Directions == {<<"buy">>}
ClientIds == {<<"c1">>}
Amounts == {Finite(100000)}                        \* 0.1
Prices == {Finite(123500000), Finite(31250), NaN}  \* 123.5, 0.03125, not a number

NoRet == [body |-> EmptyBody, err |-> NilErr]
NoResult == [ret |-> "none", val |-> ZeroValue, err |-> NilErr]
Returned(val, err) == [ret |-> "returned", val |-> val, err |-> err]
Void == [ret |-> "void", val |-> ZeroValue, err |-> NilErr]
Panicked == [ret |-> "panic", val |-> ZeroValue, err |-> NilErr]

NoHeaders == [apikey |-> <<>>, payload |-> <<>>, signature |-> <<>>]
NoSig == [secret |-> <<>>, req |-> NoRequest]
NoCall == [op |-> "none", arg |-> <<>>, req |-> NoRequest, ret |-> NoRet,
           fault |-> "none", reqs |-> 0, result |-> NoResult]

\* NewGeminiAPI
NewGeminiAPI(baseurl, apikey, apisecret, now) ==
    [BaseURL |-> baseurl, ApiKey |-> apikey, ApiSecret |-> apisecret, Nonce |-> now]

SigIdle ==
    /\ sigA = NoSig /\ sigB = NoSig
    /\ outA = NoHeaders /\ outB = NoHeaders
    /\ changes = 0

MainInit ==
    /\ \E u \in BaseURLs, k \in ApiKeys, s \in {<<"secret1">>}, n \in InitNonces :
          /\ ga = NewGeminiAPI(u, k, s, n)
          /\ Nonce0 = n
    /\ pc = [t \in Procs |-> "idle"]
    /\ op = [t \in Procs |-> "none"]
    /\ arg = [t \in Procs |-> <<>>]
    /\ r = [t \in Procs |-> NoRequest]
    /\ tmp = [t \in Procs |-> 0]
    /\ reqs = [t \in Procs |-> 0]
    /\ done = NoCall
    /\ sent = {}
    /\ auths = 0
    /\ halted = FALSE

\* the second instance: gb := NewGeminiAPI(...) with the credentials of
\* another account, made at another time
OtherNonce0 == 9000
OtherInit ==
    /\ gb = NewGeminiAPI(ga.BaseURL, <<"key2">>, <<"secret2">>, OtherNonce0)
    /\ pcB = "idle"
    /\ rB = NoRequest
    /\ tmpB = 0
    /\ authsB = 0

Init == MainInit /\ SigIdle /\ OtherInit

\* --------------------------------------------------------------- results
\* lines 160-170, 178-187, 216-226: the error check on what AuthAPIReq
\* returned, then json.Unmarshal
DecodeResult(v, target) ==
    IF v.err # NilErr THEN Returned(ZeroValue, v.err)
    ELSE IF Unmarshal(v.body, target) # NilErr
         THEN Returned(ZeroValue, Unmarshal(v.body, target))
         ELSE Returned(Decoded(v.body), NilErr)

\* a direct caller of AuthAPIReq receives the pair it returns
AuthAPIReqResult(v) == Returned(Bytes(v.body), v.err)

\* GetFunds, lines 160-170
GetFundsResult(v) == DecodeResult(v, "array")

\* GetOrderStatus, lines 178-187
GetOrderStatusResult(v) == DecodeResult(v, "array")

\* CancelAll, lines 193-194: what AuthAPIReq returned is dropped
CancelAllResult(v) == Void

\* PlaceLimitOrder, lines 216-226
PlaceLimitOrderResult(v) == DecodeResult(v, "object")

\* what operation o returns once its AuthAPIReq returned v
Complete(o, v) ==
    CASE o = "AuthAPIReq" -> AuthAPIReqResult(v)
      [] o = "GetFunds" -> GetFundsResult(v)
      [] o = "GetOrderStatus" -> GetOrderStatusResult(v)
      [] o = "CancelAll" -> CancelAllResult(v)
      [] o = "PlaceLimitOrder" -> PlaceLimitOrderResult(v)

\* ----------------------------------------------------- starting operations
AllIdle == \A t \in Procs : pc[t] = "idle"

\* what the call of goroutine t leaves behind when it returns res, after n
\* calls of the HTTP client, after failure f if any and with v the bytes and
\* the error of the round trip
Return(o, a, req, n, v, f, res) ==
    [op |-> o, arg |-> a, req |-> req, ret |-> v, fault |-> f, reqs |-> n, result |-> res]

\* The operation of t returns; its locals are gone.
Finish(t, call) ==
    /\ done' = call
    /\ pc' = [pc EXCEPT ![t] = "idle"]
    /\ op' = [op EXCEPT ![t] = "none"]
    /\ arg' = [arg EXCEPT ![t] = <<>>]
    /\ r' = [r EXCEPT ![t] = NoRequest]
    /\ reqs' = [reqs EXCEPT ![t] = 0]

\* AuthAPIReq takes a lock on entry and releases it when it returns, so a
\* call enters only when no other call is inside
EnterLocked(t, o, a, req) ==
    /\ ~halted
    /\ UNCHANGED <<sigVars, otherVars>>
    /\ \A u \in Procs : pc[u] = "idle"
    /\ auths < MaxCalls
    /\ auths' = auths + 1
    /\ op' = [op EXCEPT ![t] = o]
    /\ arg' = [arg EXCEPT ![t] = a]
    /\ r' = [r EXCEPT ![t] = SetNonce(req, ga.Nonce)]
    /\ pc' = [pc EXCEPT ![t] = "IncRead"]
    /\ done' = NoCall
    /\ UNCHANGED <<ga, Nonce0, tmp, reqs, sent, halted>>

\* Goroutine t calls operation o with argument a, which enters AuthAPIReq
\* with req and runs line 105, r.SetNonce(ga.Nonce).
Enter(t, o, a, req) ==
    /\ ~halted
    /\ UNCHANGED <<sigVars, otherVars>>
    /\ pc[t] = "idle"
    /\ auths < MaxCalls
    /\ auths' = auths + 1
    /\ op' = [op EXCEPT ![t] = o]
    /\ arg' = [arg EXCEPT ![t] = a]
    /\ r' = [r EXCEPT ![t] = SetNonce(req, ga.Nonce)]
    /\ pc' = [pc EXCEPT ![t] = "IncRead"]
    /\ done' = NoCall
    /\ UNCHANGED <<ga, Nonce0, tmp, reqs, sent, halted>>

\* a caller hands AuthAPIReq a BaseRequest of its own
AuthAPIReq(t) ==
    \E route \in DirectRoutes : Enter(t, "AuthAPIReq", route, NewBaseRequest(route))

\* GetFunds, lines 158-159
GetFunds(t) == Enter(t, "GetFunds", <<>>, NewBaseRequest(RouteBalances))

\* GetOrderStatus, lines 175-177
GetOrderStatus(t) == Enter(t, "GetOrderStatus", <<>>, NewBaseRequest(RouteOrders))

\* CancelAll, lines 192-193
CancelAll(t) == Enter(t, "CancelAll", <<>>, NewBaseRequest(RouteCancelSession))

\* the final else formats like the fiat pairs instead of panicking
PriceDecimalsDefault(ticker) ==
    IF ticker = <<"ethbtc">> THEN 5 ELSE 2

\* every supported pair formats its price like the fiat pairs
PriceDecimalsFlat(ticker) ==
    IF ticker = <<"btcusd">> \/ ticker = <<"ethusd">> \/ ticker = <<"ethbtc">> THEN 2
    ELSE -1

\* PlaceLimitOrder, lines 200-206: the decimals of the price, -1 for the panic
PriceDecimals(ticker) ==
    IF ticker = <<"btcusd">> \/ ticker = <<"ethusd">> THEN 2
    ELSE IF ticker = <<"ethbtc">> THEN 5
    ELSE -1

\* the pair is checked after the nonce was read and incremented
PanicAfterNonce(t, o, a) ==
    /\ ~halted
    /\ UNCHANGED <<sigVars, otherVars>>
    /\ pc[t] = "idle"
    /\ ga' = [ga EXCEPT !.Nonce = ga.Nonce + 1]
    /\ \/ /\ Finish(t, Return(o, a, NoRequest, 0, NoRet, "none", Panicked))
          /\ UNCHANGED halted
       \/ /\ halted' = TRUE
          /\ done' = NoCall
          /\ UNCHANGED <<pc, op, arg, r, reqs>>
    /\ UNCHANGED <<Nonce0, tmp, sent, auths>>

\* line 205: the panic unwinds into a caller that recovers it, or nothing
\* recovers it and the process ends
Panic(t, o, a) ==
    /\ ~halted
    /\ UNCHANGED <<sigVars, otherVars>>
    /\ pc[t] = "idle"
    /\ \/ /\ Finish(t, Return(o, a, NoRequest, 0, NoRet, "none", Panicked))
          /\ UNCHANGED halted
       \/ /\ halted' = TRUE
          /\ done' = NoCall
          /\ UNCHANGED <<pc, op, arg, r, reqs>>
    /\ UNCHANGED <<ga, Nonce0, tmp, sent, auths>>

\* PlaceLimitOrder, lines 198-215
PlaceLimitOrder(t) ==
    \E direction \in Directions, ticker \in Tickers, client_id \in ClientIds,
       amount \in Amounts, price \in Prices :
        LET amountStr == FormatFixed(amount, 6)
            decimals == PriceDecimals(ticker)
        IN  IF decimals < 0
            THEN Panic(t, "PlaceLimitOrder", ticker)
            ELSE Enter(t, "PlaceLimitOrder", ticker,
                       OrderPlaceReq(RouteOrderNew, ticker, amountStr,
                                     FormatFixed(price, decimals), direction,
                                     <<"exchange limit">>, client_id))

\* ------------------------------------------------------------- AuthAPIReq
\* a failed AuthAPIReq returns the error it met
AuthFailReturnErr == [body |-> EmptyBody, err |-> ReadError]

\* lines 110, 122, 128: what AuthAPIReq returns when it failed
AuthFailReturn == [body |-> EmptyBody, err |-> NilErr]

\* AuthAPIReq returns v, after failure f if any and n calls of client.Do,
\* and the operation that called it returns in turn.
AuthReturn(t, n, v, f) ==
    Finish(t, Return(op[t], arg[t], r[t], n, v, f, Complete(op[t], v)))

\* line 106, ga.Nonce++: the read
AuthIncRead(t) ==
    /\ ~halted
    /\ UNCHANGED <<sigVars, otherVars>>
    /\ pc[t] = "IncRead"
    /\ tmp' = [tmp EXCEPT ![t] = ga.Nonce]
    /\ pc' = [pc EXCEPT ![t] = "IncWrite"]
    /\ done' = NoCall
    /\ UNCHANGED <<ga, Nonce0, op, arg, r, reqs, sent, auths, halted>>

\* the write stores the value read, without the increment
AuthIncWriteNoInc(t) ==
    /\ ~halted
    /\ UNCHANGED <<sigVars, otherVars>>
    /\ pc[t] = "IncWrite"
    /\ ga' = [ga EXCEPT !.Nonce = tmp[t]]
    /\ tmp' = [tmp EXCEPT ![t] = 0]
    /\ pc' = [pc EXCEPT ![t] = "Do"]
    /\ done' = NoCall
    /\ UNCHANGED <<Nonce0, op, arg, r, reqs, sent, auths, halted>>

\* line 106, ga.Nonce++: the write
AuthIncWrite(t) ==
    /\ ~halted
    /\ UNCHANGED <<sigVars, otherVars>>
    /\ pc[t] = "IncWrite"
    /\ ga' = [ga EXCEPT !.Nonce = tmp[t] + 1]
    /\ tmp' = [tmp EXCEPT ![t] = 0]
    /\ pc' = [pc EXCEPT ![t] = "Do"]
    /\ done' = NoCall
    /\ UNCHANGED <<Nonce0, op, arg, r, reqs, sent, auths, halted>>

\* the request AuthAPIReq builds and signs, lines 107-118
AuthRequest(t) ==
    [method |-> "POST",
     url |-> ga.BaseURL \o GetRoute(r[t]),
     headers |-> SignedHeaders(ga.ApiKey, ga.ApiSecret, r[t]),
     fields |-> r[t]]

\* lines 107-119: http.NewRequest fails, or the request is signed and
\* client.Do is called: the request leaves, or the connection fails first
AuthDo(t) ==
    /\ ~halted
    /\ UNCHANGED <<sigVars, otherVars>>
    /\ pc[t] = "Do"
    /\ IF ~UrlOK(ga.BaseURL \o GetRoute(r[t]))
       THEN /\ AuthReturn(t, reqs[t], AuthFailReturn, "newrequest")
            /\ UNCHANGED sent
       ELSE \/ /\ sent' = sent \cup {AuthRequest(t).fields.Nonce}
               /\ reqs' = [reqs EXCEPT ![t] = reqs[t] + 1]
               /\ pc' = [pc EXCEPT ![t] = "Wait"]
               /\ done' = NoCall
               /\ UNCHANGED <<op, arg, r>>
            \/ /\ AuthReturn(t, reqs[t] + 1, AuthFailReturn, "transport")
               /\ UNCHANGED sent
    /\ UNCHANGED <<ga, Nonce0, tmp, auths, halted>>

\* an error of client.Do sends the call back to client.Do
AuthDoReturnRetry(t) ==
    /\ ~halted
    /\ UNCHANGED <<sigVars, otherVars>>
    /\ pc[t] = "Wait"
    /\ \/ /\ pc' = [pc EXCEPT ![t] = "Do"]
          /\ done' = NoCall
          /\ UNCHANGED <<op, arg, r, reqs>>
       \/ AuthReturn(t, reqs[t], AuthFailReturn, "read")
       \/ \E body \in Bodies :
            AuthReturn(t, reqs[t], [body |-> body, err |-> NilErr], "none")
    /\ UNCHANGED <<ga, Nonce0, tmp, sent, auths, halted>>

\* lines 119-130: client.Do returns an error after the request left (a
\* timeout, a broken connection), ioutil.ReadAll fails, or the body is read
AuthDoReturn(t) ==
    /\ ~halted
    /\ UNCHANGED <<sigVars, otherVars>>
    /\ pc[t] = "Wait"
    /\ \/ AuthReturn(t, reqs[t], AuthFailReturn, "transport")
       \/ AuthReturn(t, reqs[t], AuthFailReturn, "read")
       \/ \E body \in Bodies :
            AuthReturn(t, reqs[t], [body |-> body, err |-> NilErr], "none")
    /\ UNCHANGED <<ga, Nonce0, tmp, sent, auths, halted>>

\* --------------------------------------------------------------- GetTicker
\* the request of http.Get, line 136
TickerRequest(pair) ==
    [method |-> "GET",
     url |-> ga.BaseURL \o TickerUrl(pair),
     headers |-> NoHeaders,
     fields |-> NoRequest]

\* lines 136-153, the ways a GetTicker call ends: the URL does not parse;
\* http.Get fails; ioutil.ReadAll fails; the body is read and decoded
TickerOutcomes(pair) ==
    LET url == TickerRequest(pair).url
        Ret(n, v, f, res) == Return("GetTicker", pair, NoRequest, n, v, f, res)
    IN  IF ~UrlOK(url)
        THEN {Ret(0, NoRet, "newrequest", Returned(ZeroValue, UrlError(url)))}
        ELSE {Ret(1, NoRet, "transport", Returned(ZeroValue, UrlError(url))),
              Ret(1, NoRet, "read", Returned(ZeroValue, ReadError))}
             \cup {Ret(1, [body |-> body, err |-> NilErr], "none",
                       DecodeResult([body |-> body, err |-> NilErr], "object")) :
                   body \in Bodies}

\* GetTicker takes a nonce as the signed calls do
GetTickerNonce(t) ==
    /\ ~halted
    /\ UNCHANGED <<sigVars, otherVars>>
    /\ pc[t] = "idle"
    /\ ga' = [ga EXCEPT !.Nonce = ga.Nonce + 1]
    /\ \E pair \in Pairs : \E call \in TickerOutcomes(pair) : Finish(t, call)
    /\ UNCHANGED <<Nonce0, tmp, sent, auths, halted>>

\* GetTicker, lines 134-154: the call shares nothing with the other
\* goroutines, so it is one step
GetTicker(t) ==
    /\ ~halted
    /\ UNCHANGED <<sigVars, otherVars>>
    /\ pc[t] = "idle"
    /\ \E pair \in Pairs : \E call \in TickerOutcomes(pair) : Finish(t, call)
    /\ UNCHANGED <<ga, Nonce0, tmp, sent, auths, halted>>

\* ------------------------------------------------------ the second instance
\* One goroutine calls gb.CancelAll(): the code of AuthAPIReq with gb as its
\* receiver.  Its steps interleave with the steps of the callers of ga.

\* CancelAll, lines 192-193, and line 105, r.SetNonce(gb.Nonce)
OtherCancelAll ==
    /\ ~halted
    /\ pcB = "idle"
    /\ authsB < MaxCalls
    /\ authsB' = authsB + 1
    /\ rB' = SetNonce(NewBaseRequest(RouteCancelSession), gb.Nonce)
    /\ pcB' = "IncRead"
    /\ done' = NoCall
    /\ UNCHANGED <<gb, tmpB>>
    /\ UNCHANGED <<ga, Nonce0, pc, op, arg, r, tmp, reqs, sent, auths, halted>>
    /\ UNCHANGED sigVars

\* line 106, gb.Nonce++: the read
OtherIncRead ==
    /\ ~halted
    /\ pcB = "IncRead"
    /\ tmpB' = gb.Nonce
    /\ pcB' = "IncWrite"
    /\ done' = NoCall
    /\ UNCHANGED <<gb, rB, authsB>>
    /\ UNCHANGED <<ga, Nonce0, pc, op, arg, r, tmp, reqs, sent, auths, halted>>
    /\ UNCHANGED sigVars

\* the counter is one variable of the package, the one ga holds
OtherIncWriteGlobal ==
    /\ ~halted
    /\ pcB = "IncWrite"
    /\ ga' = [ga EXCEPT !.Nonce = tmpB + 1]
    /\ tmpB' = 0
    /\ pcB' = "Do"
    /\ done' = NoCall
    /\ UNCHANGED <<gb, rB, authsB>>
    /\ UNCHANGED <<Nonce0, pc, op, arg, r, tmp, reqs, sent, auths, halted>>
    /\ UNCHANGED sigVars

\* line 106, gb.Nonce++: the write
OtherIncWrite ==
    /\ ~halted
    /\ pcB = "IncWrite"
    /\ gb' = [gb EXCEPT !.Nonce = tmpB + 1]
    /\ tmpB' = 0
    /\ pcB' = "Do"
    /\ done' = NoCall
    /\ UNCHANGED <<rB, authsB>>
    /\ UNCHANGED <<ga, Nonce0, pc, op, arg, r, tmp, reqs, sent, auths, halted>>
    /\ UNCHANGED sigVars

\* lines 107-131 and 193-194: the request is built from gb.BaseURL, signed
\* with gb.ApiSecret and sent, or fails; whatever AuthAPIReq returns,
\* CancelAll drops it and returns
OtherRoundTrip ==
    /\ ~halted
    /\ pcB = "Do"
    /\ rB' = NoRequest
    /\ pcB' = "idle"
    /\ done' = NoCall
    /\ UNCHANGED <<gb, tmpB, authsB>>
    /\ UNCHANGED <<ga, Nonce0, pc, op, arg, r, tmp, reqs, sent, auths, halted>>
    /\ UNCHANGED sigVars

\* ---------------------------------------------------------- specifications
\* goroutines call the operations of one dispatcher concurrently
Next ==
    \E t \in Procs :
        \/ AuthAPIReq(t)
        \/ GetTicker(t)
        \/ GetFunds(t)
        \/ GetOrderStatus(t)
        \/ CancelAll(t)
        \/ PlaceLimitOrder(t)
        \/ AuthIncRead(t)
        \/ AuthIncWrite(t)
        \/ AuthDo(t)
        \/ AuthDoReturn(t)

Spec == Init /\ [][Next]_vars

\* every operation returns before the next one is called
SeqNext ==
    \E t \in Procs :
        \/ AllIdle /\ AuthAPIReq(t)
        \/ AllIdle /\ GetTicker(t)
        \/ AllIdle /\ GetFunds(t)
        \/ AllIdle /\ GetOrderStatus(t)
        \/ AllIdle /\ CancelAll(t)
        \/ AllIdle /\ PlaceLimitOrder(t)
        \/ AuthIncRead(t)
        \/ AuthIncWrite(t)
        \/ AuthDo(t)
        \/ AuthDoReturn(t)

SeqSpec == Init /\ [][SeqNext]_vars

\* the calls on ga are made one after the other while another goroutine
\* calls gb: the steps of the two interleave freely
TwoNext ==
    \/ SeqNext
    \/ OtherCancelAll
    \/ OtherIncRead
    \/ OtherIncWrite
    \/ OtherRoundTrip

TwoSpec == Init /\ [][TwoNext]_vars

\* goroutines call GetFunds and CancelAll of one dispatcher concurrently,
\* the dispatcher being one whose base URL parses
ConcInit == Init /\ UrlOK(ga.BaseURL) /\ Nonce0 = 1000

ConcNext ==
    \E t \in Procs :
        \/ GetFunds(t)
        \/ CancelAll(t)
        \/ AuthIncRead(t)
        \/ AuthIncWrite(t)
        \/ AuthDo(t)
        \/ AuthDoReturn(t)

ConcSpec == ConcInit /\ [][ConcNext]_vars

\* ------------------------------------------------- the signature, two runs
\* Two runs of lines 112-118 on their own inputs: run A on any request, run B
\* on the request of A with some of its inputs changed.
SigAlphabet == {"a", Quote, Backslash, "xFF", "xFE"}

RECURSIVE StringsUpTo(_)
StringsUpTo(n) ==
    IF n = 0 THEN {<<>>}
    ELSE StringsUpTo(n - 1) \cup
         {Append(s, c) : s \in {x \in StringsUpTo(n - 1) : Len(x) = n - 1}, c \in SigAlphabet}

SigStrings == StringsUpTo(MaxStrLen)
SigRoutes == {RouteOrderNew, RouteOrders}
SigNonces == {1000, 1001}
SigSymbols == {<<"btcusd">>, <<"ethbtc">>}
SigAmounts == {FormatFixed(Finite(100000), 6), FormatFixed(Finite(250000), 6)}
SigPrices == {FormatFixed(Finite(31250), 5), FormatFixed(Finite(123500000), 2)}
SigSides == {<<"buy">>, <<"sell">>}
SigTypes == {<<"exchange limit">>, <<"exchange market">>}

SigRequests ==
    {BaseRequest(RouteOrders, 1000)} \cup
    {SetNonce(OrderPlaceReq(RouteOrderNew, <<"btcusd">>, FormatFixed(Finite(100000), 6),
                            FormatFixed(Finite(123500000), 2), <<"buy">>,
                            <<"exchange limit">>, c), 1000) : c \in SigStrings}

SigInit ==
    /\ MainInit
    /\ OtherInit
    /\ \E q \in SigRequests : sigA = [secret |-> <<"secret1">>, req |-> q]
    /\ sigB = sigA
    /\ outA = NoHeaders
    /\ outB = NoHeaders
    /\ changes = 0

\* run B is given other inputs than run A
Change(new) ==
    /\ changes < MaxChanges
    /\ outB = NoHeaders
    /\ new # sigB
    /\ sigB' = new
    /\ changes' = changes + 1
    /\ UNCHANGED <<sigA, outA, outB>>
    /\ UNCHANGED <<mainVars, otherVars>>

ChangeSecret == \E s \in ApiSecrets : Change([sigB EXCEPT !.secret = s])
ChangeRoute == \E x \in SigRoutes : Change([sigB EXCEPT !.req.Request = x])
ChangeNonce == \E n \in SigNonces : Change([sigB EXCEPT !.req.Nonce = n])
ChangeSymbol ==
    /\ sigB.req.type = "OrderPlaceReq"
    /\ \E x \in SigSymbols : Change([sigB EXCEPT !.req.Symbol = x])
ChangeAmount ==
    /\ sigB.req.type = "OrderPlaceReq"
    /\ \E x \in SigAmounts : Change([sigB EXCEPT !.req.Amount = x])
ChangePrice ==
    /\ sigB.req.type = "OrderPlaceReq"
    /\ \E x \in SigPrices : Change([sigB EXCEPT !.req.Price = x])
ChangeSide ==
    /\ sigB.req.type = "OrderPlaceReq"
    /\ \E x \in SigSides : Change([sigB EXCEPT !.req.Side = x])
ChangeType ==
    /\ sigB.req.type = "OrderPlaceReq"
    /\ \E x \in SigTypes : Change([sigB EXCEPT !.req.Type = x])
ChangeClientId ==
    /\ sigB.req.type = "OrderPlaceReq"
    /\ \E x \in SigStrings : Change([sigB EXCEPT !.req.ClientId = x])

\* lines 112-118 on the inputs of run A
RunA ==
    /\ outA = NoHeaders
    /\ outA' = SignedHeaders(ga.ApiKey, sigA.secret, sigA.req)
    /\ UNCHANGED <<sigA, sigB, outB, changes>>
    /\ UNCHANGED <<mainVars, otherVars>>

\* lines 112-118 on the inputs of run B
RunB ==
    /\ outB = NoHeaders
    /\ outB' = SignedHeaders(ga.ApiKey, sigB.secret, sigB.req)
    /\ UNCHANGED <<sigA, sigB, outA, changes>>
    /\ UNCHANGED <<mainVars, otherVars>>

SigNext ==
    \/ ChangeSecret
    \/ ChangeRoute
    \/ ChangeNonce
    \/ ChangeSymbol
    \/ ChangeAmount
    \/ ChangePrice
    \/ ChangeSide
    \/ ChangeType
    \/ ChangeClientId
    \/ RunA
    \/ RunB

SigSpec == SigInit /\ [][SigNext]_vars

\* ================================================================ properties
InFlight(t) == pc[t] \in {"IncRead", "IncWrite", "Do", "Wait"}
AuthOps == {"AuthAPIReq", "GetFunds", "GetOrderStatus", "CancelAll", "PlaceLimitOrder"}
DecodeErrors == {"json.SyntaxError", "json.UnmarshalTypeError"}
SupportedPairs == {<<"btcusd">>, <<"ethusd">>, <<"ethbtc">>}

\* a call that went through AuthAPIReq has just returned
AuthDone == done.op \in AuthOps /\ done.result.ret # "panic"

\* goroutine t hands its signed request to the network in this step
Sends(t) == pc[t] = "Do" /\ pc'[t] = "Wait"

\* C1: no signed request leaves with a nonce that an earlier request of the
\* instance carried, whatever the interleaving of the callers: the nonces
\* sent are pairwise distinct, as strictly increasing nonces must be.
C1_SentNoncesDistinct ==
    [][\A t \in Procs : Sends(t) => r[t].Nonce \notin sent]_vars

\* C2: with the calls made one after the other, the k-th call of AuthAPIReq
\* embeds Nonce0 + k - 1, the counter is Nonce0 + k from the write of line 106
\* on, so before the request is signed, and it stays there when the call fails.
C2_SequentialNonces ==
    /\ \A t \in Procs :
          /\ InFlight(t) => r[t].Nonce = Nonce0 + auths - 1
          /\ pc[t] \in {"IncRead", "IncWrite"} => ga.Nonce = Nonce0 + auths - 1
          /\ pc[t] \in {"Do", "Wait"} => ga.Nonce = Nonce0 + auths
          /\ pc[t] = "Wait" =>
                AuthRequest(t).headers.payload = Base64(GetPayload(SetNonce(r[t], Nonce0 + auths - 1)))
    /\ AuthDone => done.req.Nonce = Nonce0 + auths - 1
    /\ AllIdle => ga.Nonce = Nonce0 + auths
    /\ sent \subseteq Nonce0..(Nonce0 + auths - 1)

C2_Witness ==
    /\ AuthDone
    /\ done.fault = "transport"
    /\ auths = 2
    /\ ga.Nonce = Nonce0 + 2

\* C3: a PlaceLimitOrder whose client.Do failed leaves the counter above the
\* nonce it used and returns a transport error that names the route.
C3_OrderTransportError ==
    (done.op = "PlaceLimitOrder" /\ done.fault = "transport") =>
        /\ ga.Nonce > done.req.Nonce
        /\ done.result.ret = "returned"
        /\ done.result.err.kind = "url.Error"
        /\ done.result.err.url = ga.BaseURL \o RouteOrderNew

\* the shape an operation decodes its response into, if it decodes it
DecodeTarget(o) ==
    CASE o \in {"GetFunds", "GetOrderStatus"} -> "array"
      [] o \in {"PlaceLimitOrder", "GetTicker"} -> "object"
      [] OTHER -> "none"

\* C4: an operation whose transport failed returns a transport error, one
\* whose response does not decode returns a decode error.
C4_FailuresReported ==
    /\ (done.op # "none" /\ done.fault = "transport") =>
          (done.result.ret = "returned" /\ done.result.err.kind = "url.Error")
    /\ (done.op # "none" /\ done.fault = "none" /\ DecodeTarget(done.op) # "none"
          /\ done.result.ret # "panic"
          /\ Unmarshal(done.ret.body, DecodeTarget(done.op)) # NilErr) =>
          (done.result.ret = "returned" /\ done.result.err.kind \in DecodeErrors)

\* C5: a PlaceLimitOrder on a pair outside btcusd, ethusd, ethbtc ends in the
\* panic without a call of the HTTP client: no such call is ever under way
\* in AuthAPIReq and no order request in flight carries such a pair.
C5_UnsupportedPairFailsFast ==
    /\ \A t \in Procs :
          /\ op[t] = "PlaceLimitOrder" => arg[t] \in SupportedPairs
          /\ (pc[t] = "Wait" /\ GetRoute(r[t]) = RouteOrderNew) =>
                r[t].Symbol \in SupportedPairs
    /\ (done.op = "PlaceLimitOrder" /\ done.arg \notin SupportedPairs) =>
          (done.result.ret = "panic" /\ done.reqs = 0)

C5_Witness ==
    /\ done.op = "PlaceLimitOrder"
    /\ done.arg = <<"ltcusd">>
    /\ done.result.ret = "panic"
    /\ done.reqs = 0

\* C6: a GetOrderStatus whose response does not decode returns a decode error
\* and its result still holds the bytes received.
C6_DecodeErrorKeepsBody ==
    (done.op = "GetOrderStatus" /\ done.fault = "none"
        /\ Unmarshal(done.ret.body, "array") # NilErr) =>
        /\ done.result.err.kind \in DecodeErrors
        /\ done.result.val.from = done.ret.body

\* C7: a GetTicker call, whatever its outcome, leaves the nonce counter, the
\* nonce of every signed call under way and the nonces sent as they were.
C7_TickerKeepsNonce ==
    [][done'.op = "GetTicker" =>
          /\ ga'.Nonce = ga.Nonce
          /\ auths' = auths
          /\ sent' = sent
          /\ \A u \in Procs : InFlight(u) => r'[u].Nonce = r[u].Nonce]_vars

C7_Witness ==
    /\ done.op = "GetTicker"
    /\ done.reqs = 1
    /\ sent = {Nonce0}
    /\ ga.Nonce = Nonce0 + 1
    /\ auths < MaxCalls

\* C8: the nonce counter never goes down.
C8_NonceNeverDecreases == [][ga'.Nonce >= ga.Nonce]_vars

\* C9: a call makes at most one call of the HTTP client, and the step in
\* which it fails is its return: it sends nothing and takes no nonce.
C9_NoRetry ==
    [][/\ \A t \in Procs : reqs'[t] <= 1
       /\ done'.reqs <= 1
       /\ done'.fault # "none" =>
             /\ sent' = sent
             /\ ga'.Nonce = ga.Nonce
             /\ auths' = auths
             /\ \A t \in Procs : pc'[t] # pc[t] => pc'[t] = "idle"]_vars

C9_Witness ==
    /\ done.fault = "transport"
    /\ done.reqs = 1
    /\ AuthDone

\* C10: the two runs are signed
BothSigned == outA # NoHeaders /\ outB # NoHeaders

\* json.Marshal coerces a string to valid UTF-8: every byte that is not valid
\* UTF-8 stands for U+FFFD
ToValidUTF8(str) ==
    [i \in 1..Len(str) |-> IF str[i] \in InvalidBytes THEN "U+FFFD" ELSE str[i]]

Coerced(in) ==
    [secret |-> in.secret, type |-> in.req.type, Nonce |-> in.req.Nonce,
     Request |-> ToValidUTF8(in.req.Request), Symbol |-> ToValidUTF8(in.req.Symbol),
     Amount |-> ToValidUTF8(in.req.Amount), Price |-> ToValidUTF8(in.req.Price),
     Side |-> ToValidUTF8(in.req.Side), Type |-> ToValidUTF8(in.req.Type),
     ClientId |-> ToValidUTF8(in.req.ClientId)]

\* C10 as stated: the same route, fields, nonce and secret give the same
\* payload and signature, and a change of any of them changes the signature.
C10_SignatureDeterminedByFields ==
    BothSigned =>
        /\ sigA = sigB => (outA.payload = outB.payload /\ outA.signature = outB.signature)
        /\ sigA # sigB => outA.signature # outB.signature

\* C10 amended: the same inputs give the same payload and signature, and a
\* change of the secret, the route, the nonce or a caller field changes the
\* signature when the values still differ once coerced to valid UTF-8.
C10_SignatureDeterminedByCoercedFields ==
    BothSigned =>
        /\ sigA = sigB => (outA.payload = outB.payload /\ outA.signature = outB.signature)
        /\ Coerced(sigA) # Coerced(sigB) => outA.signature # outB.signature
        /\ Coerced(sigA) = Coerced(sigB) => outA.signature = outB.signature

C10_Witness ==
    /\ BothSigned
    /\ sigA.req.type = "OrderPlaceReq"
    /\ sigA.req.ClientId # sigB.req.ClientId
    /\ ToValidUTF8(sigA.req.ClientId) # ToValidUTF8(sigB.req.ClientId)
    /\ outA.signature # outB.signature

\* C11: decimal notation with exactly k places
IsDigit(c) == c \in {"0", "1", "2", "3", "4", "5", "6", "7", "8", "9"}

HasDecimals(str, k) ==
    LET body == IF str # <<>> /\ Head(str) = "-" THEN Tail(str) ELSE str
        point == Len(body) - k
    IN  /\ point >= 2
        /\ body[point] = "."
        /\ \A i \in 1..Len(body) : i # point => IsDigit(body[i])

\* what fmt writes for a float64 that is not a number
NonNumbers == {<<"NaN">>, <<"+Inf">>, <<"-Inf">>}

\* an order request of goroutine t has left
OrderSent(t) == pc[t] = "Wait" /\ GetRoute(r[t]) = RouteOrderNew

\* C11 as stated: every order request sent has an amount with 6 decimals and a
\* price with 2 decimals on btcusd and ethusd, with 5 on ethbtc, and no order
\* request is sent for another pair.
C11_OrderDecimals ==
    /\ \A t \in Procs : OrderSent(t) =>
          /\ HasDecimals(r[t].Amount, 6)
          /\ r[t].Symbol \in SupportedPairs
          /\ r[t].Symbol \in {<<"btcusd">>, <<"ethusd">>} => HasDecimals(r[t].Price, 2)
          /\ r[t].Symbol = <<"ethbtc">> => HasDecimals(r[t].Price, 5)
    /\ (done.op = "PlaceLimitOrder" /\ done.arg \notin SupportedPairs) => done.reqs = 0

\* C11 amended: the same, except that an amount or a price that is NaN or
\* infinite is sent as NaN, +Inf or -Inf, which has no decimals.
C11_OrderDecimalsOfNumbers ==
    /\ \A t \in Procs : OrderSent(t) =>
          /\ HasDecimals(r[t].Amount, 6) \/ r[t].Amount \in NonNumbers
          /\ r[t].Symbol \in SupportedPairs
          /\ r[t].Symbol \in {<<"btcusd">>, <<"ethusd">>} =>
                (HasDecimals(r[t].Price, 2) \/ r[t].Price \in NonNumbers)
          /\ r[t].Symbol = <<"ethbtc">> =>
                (HasDecimals(r[t].Price, 5) \/ r[t].Price \in NonNumbers)
    /\ (done.op = "PlaceLimitOrder" /\ done.arg \notin SupportedPairs) => done.reqs = 0
    /\ \A x \in Amounts \cup Prices, k \in {2, 5, 6} :
          IF x.class = "finite" THEN HasDecimals(FormatFixed(x, k), k)
          ELSE FormatFixed(x, k) \in NonNumbers

C11_Witness ==
    \E t \in Procs :
        /\ OrderSent(t)
        /\ r[t].Symbol = <<"ethbtc">>
        /\ r[t].Price = <<"0", ".", "0", "3", "1", "2", "5">>
        /\ r[t].Amount = <<"0", ".", "1", "0", "0", "0", "0", "0">>

\* C12: the names of the fields of a payload, in order
FieldNames(payload) == [i \in 1..Len(payload) |-> payload[i][1]]

BaseFieldNames == <<"request", "nonce">>
OrderFieldNames ==
    <<"request", "nonce", "symbol", "amount", "price", "side", "type", "client_order_id">>

\* C12: every signed request that left has the URL made of the base URL and
\* the route, the key in the key header, a payload whose fields are request,
\* nonce and the order fields of the caller, and a signature keyed with the
\* secret; the secret is no header value, no payload value and no part of the
\* URL, and another secret would change the signature header alone.
C12_SecretOnlyKeysHMAC ==
    \A t \in Procs : pc[t] = "Wait" =>
        LET q == AuthRequest(t)
            payload == GetPayload(r[t])
        IN  /\ q.url = ga.BaseURL \o r[t].Request
            /\ \A i \in 1..Len(q.url) : <<q.url[i]>> # ga.ApiSecret
            /\ q.headers.apikey = ga.ApiKey
            /\ q.headers.apikey # ga.ApiSecret
            /\ q.headers.payload = Base64(payload)
            /\ FieldNames(payload) =
                  IF r[t].type = "OrderPlaceReq" THEN OrderFieldNames ELSE BaseFieldNames
            /\ payload[1][2] = JSONString(r[t].Request)
            /\ payload[2][2] = r[t].Nonce
            /\ r[t].type = "OrderPlaceReq" =>
                  <<payload[3][2], payload[4][2], payload[5][2],
                    payload[6][2], payload[7][2], payload[8][2]>> =
                  <<JSONString(r[t].Symbol), JSONString(r[t].Amount),
                    JSONString(r[t].Price), JSONString(r[t].Side),
                    JSONString(r[t].Type), JSONString(r[t].ClientId)>>
            /\ \A i \in 1..Len(payload) : i # 2 => payload[i][2] # JSONString(ga.ApiSecret)
            /\ q.headers.signature = Hex(HMAC384(ga.ApiSecret, q.headers.payload))
            /\ \A s \in ApiSecrets :
                  LET h == SignedHeaders(ga.ApiKey, s, r[t])
                  IN  /\ h.apikey = q.headers.apikey
                      /\ h.payload = q.headers.payload
                      /\ s # ga.ApiSecret => h.signature # q.headers.signature

C12_Witness ==
    \E t \in Procs :
        /\ pc[t] = "Wait"
        /\ r[t].type = "OrderPlaceReq"
        /\ r[t].Nonce = Nonce0 + 1
        /\ AuthRequest(t).headers.signature =
              Hex(HMAC384(<<"secret1">>, Base64(OrderGetPayload(r[t]))))

\* C13: the round trip of a call holds nothing that the nonce assignment of
\* another call needs: while a call waits for its response, a caller that
\* may still call can enter AuthAPIReq, and a call that has entered can take
\* each of its steps up to the sending of its request.
C13_RoundTripHoldsNoLock ==
    ~halted =>
        \A t \in Procs, u \in Procs : (t # u /\ pc[t] = "Wait") =>
            /\ (pc[u] = "idle" /\ auths < MaxCalls) => ENABLED GetFunds(u)
            /\ pc[u] = "IncRead" => ENABLED AuthIncRead(u)
            /\ pc[u] = "IncWrite" => ENABLED AuthIncWrite(u)
            /\ pc[u] = "Do" => ENABLED AuthDo(u)

\* a call took the next nonce and sent its request while the first waits
C13_Witness ==
    \E t \in Procs, u \in Procs :
        /\ t # u
        /\ pc[t] = "Wait" /\ r[t].Nonce = Nonce0
        /\ pc[u] = "Wait" /\ r[u].Nonce = Nonce0 + 1
        /\ ga.Nonce = Nonce0 + 2
        /\ sent = {Nonce0, Nonce0 + 1}

\* C14: the goroutine that uses gb takes a step (each of its steps moves it);
\* any other step is a step of an operation on ga
OtherStep == pcB' # pcB

\* every step of an operation on ga leaves gb, its counter and its
\* credentials, as it was, and every step of the call on gb leaves ga and the
\* calls on ga as they were
OtherFrame ==
    /\ ~OtherStep => gb' = gb
    /\ OtherStep => (ga' = ga /\ r' = r /\ tmp' = tmp /\ sent' = sent)

\* each counter stands at its own start plus its own calls, and each
\* instance keeps the credentials it was made with
OwnCounters ==
    /\ pcB \in {"IncRead", "IncWrite"} =>
          (gb.Nonce = OtherNonce0 + authsB - 1 /\ rB.Nonce = gb.Nonce)
    /\ pcB = "Do" => (gb.Nonce = OtherNonce0 + authsB /\ rB.Nonce = gb.Nonce - 1)
    /\ pcB = "idle" => gb.Nonce = OtherNonce0 + authsB
    /\ AllIdle => ga.Nonce = Nonce0 + auths
    /\ <<gb.ApiKey, gb.ApiSecret>> = << <<"key2">>, <<"secret2">> >>
    /\ <<ga.ApiKey, ga.ApiSecret>> = << <<"key">>, <<"secret1">> >>

\* C14: operations on one instance leave the nonce counter and the
\* credentials of the other instance unchanged, whatever the interleaving of
\* the steps on the two instances.
C14_InstancesIndependent == [][OtherFrame]_vars /\ []OwnCounters

\* a call on each instance is under way and each has advanced its own counter
C14_Witness ==
    /\ pcB = "Do"
    /\ gb.Nonce = OtherNonce0 + 2
    /\ \E t \in Procs : pc[t] = "Wait" /\ r[t].Nonce = Nonce0 + 1
    /\ ga.Nonce = Nonce0 + 2

\* C15: the operations that decode what AuthAPIReq returned
DecodingOps == {"GetFunds", "GetOrderStatus", "PlaceLimitOrder"}

\* C15: AuthAPIReq returns a nil error on every path, and an empty body with
\* it when the request could not be built, the transport failed or the body
\* could not be read; GetFunds, GetOrderStatus and PlaceLimitOrder then
\* return the zero value and the syntax error of decoding the empty body,
\* and no operation ever returns an error that is not a json error.
C15_AuthAPIReqErrorAlwaysNil ==
    AuthDone =>
        /\ done.ret.err = NilErr
        /\ done.fault \in {"newrequest", "transport", "read"} =>
              /\ done.ret.body = EmptyBody
              /\ done.op \in DecodingOps =>
                    done.result = Returned(ZeroValue, SyntaxError)
              /\ done.op = "AuthAPIReq" => done.result = Returned(Bytes(EmptyBody), NilErr)
        /\ done.op \in DecodingOps =>
              /\ done.result.ret = "returned"
              /\ done.result.err.kind \in {"nil"} \cup DecodeErrors
              /\ done.result.err = Unmarshal(done.ret.body, DecodeTarget(done.op))
        /\ done.op = "AuthAPIReq" => done.result.err = NilErr

C15_Witness ==
    /\ done.op = "GetFunds"
    /\ done.fault = "read"
    /\ done.reqs = 1
    /\ done.result = Returned(ZeroValue, SyntaxError)

\* the largest of a set of nonces, 0 for the empty set
MaxOf(S) == IF S = {} THEN 0 ELSE CHOOSE n \in S : \A m \in S : m <= n

\* C16: with the calls made one after the other, every request leaves with a
\* nonce above every nonce sent before it, those of the calls that failed
\* after their request had left included, so an exchange that rejects a
\* nonce at or below one it has seen rejects none of them.
C16_SentInNonceOrder ==
    [][\A t \in Procs : Sends(t) =>
          /\ r[t].Nonce > MaxOf(sent)
          /\ sent' = sent \cup {r[t].Nonce}]_vars

\* the second call failed in transport after its request had left, and the
\* two requests left in nonce order
C16_Witness ==
    /\ AuthDone
    /\ done.fault = "transport"
    /\ done.reqs = 1
    /\ done.req.Nonce = Nonce0 + 1
    /\ sent = {Nonce0, Nonce0 + 1}

\* a PlaceLimitOrder call is rejected in this step
Rejects == (done'.op = "PlaceLimitOrder" /\ done'.result.ret = "panic") \/ (halted' /\ ~halted)

\* C17: the step that rejects a PlaceLimitOrder for its pair leaves the
\* counter, the calls counted and the nonces sent as they were; the call
\* that enters AuthAPIReq next embeds the counter as it stood before the
\* rejected call, and every signed request carries the first nonce plus the
\* number of calls that entered AuthAPIReq before it, rejected calls not
\* being among them.
C17_RejectedOrderTakesNoNonce ==
    /\ [][/\ Rejects => (ga' = ga /\ auths' = auths /\ sent' = sent /\ tmp' = tmp)
          /\ done.result.ret = "panic" =>
                \A t \in Procs : (pc[t] = "idle" /\ pc'[t] = "IncRead") =>
                    r'[t].Nonce = ga.Nonce]_vars
    /\ [](\A t \in Procs : InFlight(t) => r[t].Nonce = Nonce0 + auths - 1)

\* a call is rejected after one call went through: the counter stays one
\* above the first nonce
C17_Witness ==
    /\ done.op = "PlaceLimitOrder"
    /\ done.result.ret = "panic"
    /\ done.arg \notin SupportedPairs
    /\ auths = 1
    /\ sent = {Nonce0}
    /\ ga.Nonce = Nonce0 + 1

====
